---- MODULE Spec2Model ----
(***************************************************************************)
(* MindScribe journal front end (src/app.py): a Streamlit script that is   *)
(* re-executed top to bottom for every user event.  One action of this     *)
(* model is one user event together with the script run it triggers and,   *)
(* when the handler calls st.rerun(), the run that follows it.             *)
(*                                                                         *)
(* Texts are sequences of one-character strings so that html.escape can be *)
(* computed; dates are <<year, month, day>> and date strings are strings.  *)
(***************************************************************************)
EXTENDS Integers, Sequences, FiniteSets, TLC

VARIABLES
    backend,    \* the backend's journal entries, in the order GET returns them
    nextId,     \* the id the backend assigns to the next created entry
    session,    \* st.session_state: a function from the keys present to values
    form,       \* the creation form's fields as the page shows them
    view,       \* the page the last script run rendered
    last,       \* the last user event, what its handler did and the calls made
    justEdited, \* <<id>> when the event before the last one was an Edit that took effect
    lastGood,   \* <<list>> of the last fetch that returned a body, or <<>>
    failures    \* requests so far that were not answered 200 with a JSON body

vars == <<backend, nextId, session, form, view, last, justEdited, lastGood, failures>>

(***************************************************************************)
(* Bounds of the model.                                                    *)
(***************************************************************************)
\* largest id the backend assigns
MaxId == 2

\* requests of one behaviour that are not answered 200 with a JSON body
MaxFailures == 1

(***************************************************************************)
(* Values.                                                                 *)
(***************************************************************************)
\* datetime.today()
Today == <<2024, 3, 3>>

\* what the user types into a form: title, content and date
Samples ==
    { [title |-> <<"T">>, content |-> <<"C">>, date |-> <<2024, 2, 2>>],
      [title |-> <<"<", "b">>, content |-> <<"&">>, date |-> Today] }

Dates == { p.date : p \in Samples }

Pad2(n) == IF n < 10 THEN "0" \o ToString(n) ELSE ToString(n)

\* dt.strftime("%Y-%m-%d")
iso_date(dt) == ToString(dt[1]) \o "-" \o Pad2(dt[2]) \o "-" \o Pad2(dt[3])

\* the strings datetime.strptime(s, "%Y-%m-%d") reads as the date dt: the
\* month and the day are accepted with or without the leading zero
Readings(dt) ==
    { ToString(dt[1]) \o "-" \o m \o "-" \o d :
        m \in {Pad2(dt[2]), ToString(dt[2])}, d \in {Pad2(dt[3]), ToString(dt[3])} }

\* datetime.strptime(j.get("date",""), "%Y-%m-%d").date(), today on ValueError
ParseDate(s) ==
    LET hits == { dt \in Dates : s \in Readings(dt) }
    IN  IF hits = {} THEN Today ELSE CHOOSE dt \in hits : TRUE

\* date strings the backend may hold before the session starts
StoredDates == { "2024-02-02", "2024-2-2", "" }

EscapeChar(ch) ==
    CASE ch = "&"  -> <<"&", "a", "m", "p", ";">>
      [] ch = "<"  -> <<"&", "l", "t", ";">>
      [] ch = ">"  -> <<"&", "g", "t", ";">>
      [] ch = "\"" -> <<"&", "q", "u", "o", "t", ";">>
      [] ch = "'"  -> <<"&", "#", "x", "2", "7", ";">>
      [] OTHER     -> <<ch>>

RECURSIVE escape(_)
\* html.escape(s)
escape(s) == IF s = <<>> THEN <<>> ELSE EscapeChar(Head(s)) \o escape(Tail(s))

(***************************************************************************)
(* HTTP.  A response is a transport failure (err) or a status with a body  *)
(* that is JSON or not.                                                    *)
(***************************************************************************)
Responses ==
    { [err |-> TRUE,  status |-> 0,   json |-> FALSE],
      [err |-> FALSE, status |-> 200, json |-> TRUE],
      [err |-> FALSE, status |-> 300, json |-> TRUE],
      [err |-> FALSE, status |-> 500, json |-> FALSE] }

Ok200 == [err |-> FALSE, status |-> 200, json |-> TRUE]

\* a response no request of the run consumes is left at Ok200, so that each
\* run is enumerated once
Idle(r) == r = Ok200

Failed(r) == r.err \/ r.status # 200 \/ ~r.json

RECURSIVE FailedCalls(_)
FailedCalls(calls) ==
    IF calls = <<>> THEN 0
    ELSE (IF Failed(Head(calls).resp) THEN 1 ELSE 0) + FailedCalls(Tail(calls))

Is2xx(r) == ~r.err /\ r.status >= 200 /\ r.status < 300

\* r.raise_for_status(): HTTPError for 4xx and 5xx
raise_for_status(r) == r.status >= 400 /\ r.status < 600

\* the request ends in the except branch
Raises(r) == r.err \/ raise_for_status(r)

Call(method, path, body, r) ==
    [method |-> method, path |-> path, body |-> body, resp |-> r]

IsWrite(c) == c.method \in {"POST", "PUT", "DELETE"}

(***************************************************************************)
(* The backend (the REST contract the client consumes): a request is       *)
(* applied exactly when it is answered 2xx.                                *)
(***************************************************************************)
Entry(id, t, c, d) == [id |-> id, title |-> t, content |-> c, date |-> d]

Ids(js) == { js[i].id : i \in 1..Len(js) }

BackendPost(b, nid, payload, r) ==
    IF Is2xx(r)
    THEN Append(b, Entry(nid, payload.title, payload.content, payload.date))
    ELSE b

BackendPut(b, jid, payload, r) ==
    IF Is2xx(r)
    THEN [i \in 1..Len(b) |->
            IF b[i].id = jid
            THEN Entry(jid, payload.title, payload.content, payload.date)
            ELSE b[i]]
    ELSE b

BackendDelete(b, jid, r) ==
    IF Is2xx(r) THEN SelectSeq(b, LAMBDA e : e.id # jid) ELSE b

(***************************************************************************)
(* API client.  Each operation yields its return value, the notices it     *)
(* shows and the call it made.  An absent value is <<>>, a present one     *)
(* <<v>>.                                                                  *)
(***************************************************************************)
\* a plausible slip: the body is kept although the request failed
fetch_journalsKeepsBody(b, r) ==
    IF Raises(r) \/ ~r.json
    THEN [ret |-> b, ok |-> FALSE, notices |-> {"Could not fetch journals"},
          call |-> Call("GET", <<>>, <<>>, r)]
    ELSE [ret |-> b, ok |-> TRUE, notices |-> {},
          call |-> Call("GET", <<>>, <<>>, r)]

fetch_journals(b, r) ==
    IF Raises(r) \/ ~r.json
    THEN [ret |-> <<>>, ok |-> FALSE, notices |-> {"Could not fetch journals"},
          call |-> Call("GET", <<>>, <<>>, r)]
    ELSE [ret |-> b, ok |-> TRUE, notices |-> {},
          call |-> Call("GET", <<>>, <<>>, r)]

create_journal(b, nid, payload, r) ==
    IF Raises(r) \/ ~r.json
    THEN [ret |-> <<>>, notices |-> {"Create failed"},
          call |-> Call("POST", <<>>, <<payload>>, r)]
    ELSE [ret |-> << IF Is2xx(r)
                     THEN Entry(nid, payload.title, payload.content, payload.date)
                     ELSE [detail |-> r.status] >>,
          notices |-> {},
          call |-> Call("POST", <<>>, <<payload>>, r)]

update_journal(jid, payload, r) ==
    IF Raises(r)
    THEN [ret |-> FALSE, notices |-> {"Update failed"},
          call |-> Call("PUT", <<jid>>, <<payload>>, r)]
    ELSE [ret |-> TRUE, notices |-> {},
          call |-> Call("PUT", <<jid>>, <<payload>>, r)]

delete_journal(jid, r) ==
    IF Raises(r)
    THEN [ret |-> FALSE, notices |-> {"Delete failed"},
          call |-> Call("DELETE", <<jid>>, <<>>, r)]
    ELSE [ret |-> TRUE, notices |-> {},
          call |-> Call("DELETE", <<jid>>, <<>>, r)]

(***************************************************************************)
(* st.session_state                                                        *)
(***************************************************************************)
NoSession == [k \in {} |-> 0]

Has(s, k) == k \in DOMAIN s

Put(s, k, v) == [x \in DOMAIN s \cup {k} |-> IF x = k THEN v ELSE s[x]]

\* st.session_state.pop(k, None)
Pop(s, k) == [x \in DOMAIN s \ {k} |-> s[x]]

(***************************************************************************)
(* Rendering.                                                              *)
(***************************************************************************)
\* a plausible slip: the form is drawn whenever some edit is in progress
EditModeAnyCard(s, j) == Has(s, "edit_id")

\* a plausible slip: the comparison with edit_id is inverted
EditModeOtherCards(s, j) == Has(s, "edit_id") /\ s["edit_id"] # j.id

\* st.session_state.get("edit_id") == j.get("id")
EditMode(s, j) == Has(s, "edit_id") /\ s["edit_id"] = j.id

\* st.columns(2)
NumCols == 2

\* a plausible slip: the column is taken from the 1-based position
CardColumnOffByOne(js, i) ==
    [id |-> js[i].id, date |-> js[i].date, title |-> escape(js[i].title),
     content |-> escape(js[i].content), col |-> i % NumCols]

\* the card of entry i (1-based here, idx = i - 1 in the code)
Card(js, i) ==
    [id |-> js[i].id, date |-> js[i].date, title |-> escape(js[i].title),
     content |-> escape(js[i].content), col |-> (i - 1) % NumCols]

NoEntriesInfo == "No journal entries found"

\* a script run that reaches its end: the fallback or every card, the edit
\* form under each card whose id is the session's edit_id
CompleteView(js, s, notices) ==
    [journals |-> js,
     cards    |-> [i \in 1..Len(js) |-> Card(js, i)],
     forms    |-> { i \in 1..Len(js) : EditMode(s, js[i]) },
     fallback |-> (js = <<>>),
     notices  |-> IF js = <<>> THEN notices \cup {NoEntriesInfo} ELSE notices,
     fault    |-> FALSE]

\* a script run stopped by an uncaught exception while card pos is drawn:
\* the cards up to pos, the edit forms of the cards before it
FaultView(js, s, pos, notices) ==
    [journals |-> js,
     cards    |-> [i \in 1..pos |-> Card(js, i)],
     forms    |-> { i \in 1..(pos - 1) : EditMode(s, js[i]) },
     fallback |-> FALSE,
     notices  |-> notices,
     fault    |-> TRUE]

Pos(js, jid) == CHOOSE i \in 1..Len(js) : js[i].id = jid

DefaultForm == [title |-> <<>>, content |-> <<>>, date |-> Today]

\* st.form("create_form", clear_on_submit=True): the fields after a submit
FormAfterSubmit(entered) == DefaultForm

(***************************************************************************)
(* Handlers.                                                               *)
(***************************************************************************)
\* Edit button: the session after the assignments of the handler
EditClick(s, j) ==
    Put(Put(Put(Put(s, "edit_id", j.id), "edit_title", j.title),
            "edit_content", j.content), "edit_date", ParseDate(j.date))

\* st.session_state["edit_title"] = ... raises StreamlitAPIException when a
\* widget with that key was instantiated earlier in the run, that is when
\* the edit form of a card before this one has been drawn
EditFaults(js, s, pos) == \E i \in 1..(pos - 1) : EditMode(s, js[i])

\* a plausible slip: the payload carries today's date, not the draft's
SavePayloadToday(s) ==
    [title |-> s["edit_title"], content |-> s["edit_content"],
     date |-> iso_date(Today)]

\* the Save Changes payload
SavePayload(s) ==
    [title |-> s["edit_title"], content |-> s["edit_content"],
     date |-> iso_date(s["edit_date"])]

\* a plausible slip: edit_id is dropped whether or not the update succeeded
AfterSaveAlwaysClears(s, success) == Pop(s, "edit_id")

\* the session after Save Changes, given update_journal's result
AfterSave(s, success) == IF success THEN Pop(s, "edit_id") ELSE s

\* a plausible slip: Cancel restarts the script without dropping edit_id
AfterCancelKeeps(s) == s

\* the session after Cancel edit
AfterCancel(s) == Pop(s, "edit_id")

\* whether the handlers restart the script after the API call
\* "if created:" is taken for a dict that is present and not empty
Truthy(created) == created # <<>> /\ DOMAIN created[1] # {}

RerunAfterCreate(created) == Truthy(created)

\* a plausible slip: st.rerun() is missing after a successful delete
NoRerunAfterDelete(ok) == FALSE

RerunAfterDelete(ok) == ok

RerunAfterSave(success) == success

(***************************************************************************)
(* History kept for the properties.                                        *)
(***************************************************************************)
Event(op, jid, t, c, d) == [op |-> op, id |-> jid, title |-> t, content |-> c, date |-> d]

Done(ev, fired, ok, calls) ==
    [op |-> ev.op, id |-> ev.id, title |-> ev.title, content |-> ev.content,
     date |-> ev.date, fired |-> fired, ok |-> ok, calls |-> calls]

Good(old, f) == IF f.ok THEN <<f.ret>> ELSE old

Brief(l) == IF l.op = "Edit" /\ l.fired /\ l.ok THEN <<l.id>> ELSE <<>>

Shown(v) == { v.cards[i].id : i \in 1..Len(v.cards) }

\* ids whose inline edit form (with its Cancel button) is on the page
Editing(v) == { v.cards[i].id : i \in v.forms }

\* the environment answers at most MaxFailures requests with a failure
Budget ==
    /\ failures' = failures + FailedCalls(last'.calls)
    /\ failures' <= MaxFailures

Cost(r) == IF Failed(r) THEN 1 ELSE 0

(***************************************************************************)
(* Initial state: the page has been opened and the script has run once.    *)
(***************************************************************************)
InitBackends ==
    { <<>> } \cup
    { <<Entry(1, <<"T">>, <<"C">>, d)>> : d \in StoredDates } \cup
    { <<Entry(1, <<"T">>, <<"C">>, d[1]), Entry(2, <<"<", "b">>, <<"&">>, d[2])>> :
        d \in { <<"2024-02-02", "2024-03-03">>, <<"", "2024-03-03">>,
                <<"2024-02-02", "">> } }

Init ==
    \E b \in InitBackends, r \in Responses :
        LET f == fetch_journals(b, r) IN
        /\ backend = b
        /\ nextId = Len(b) + 1
        /\ session = NoSession
        /\ form = DefaultForm
        /\ view = CompleteView(f.ret, NoSession, f.notices)
        /\ last = Done(Event("Open", 0, <<>>, <<>>, Today), TRUE, f.ok, <<f.call>>)
        /\ justEdited = <<>>
        /\ lastGood = Good(<<>>, f)
        /\ failures = FailedCalls(last.calls)
        /\ failures <= MaxFailures

(***************************************************************************)
(* The creation form is submitted with the entered title, content, date.   *)
(***************************************************************************)
Submit(t, c, d, rm, rf) ==
    LET payload == [title |-> t, content |-> c, date |-> iso_date(d)]
        cr      == create_journal(backend, nextId, payload, rm)
        b2      == BackendPost(backend, nextId, payload, rm)
        f       == fetch_journals(b2, rf)
        rerun   == RerunAfterCreate(cr.ret)
    IN  /\ nextId <= MaxId
        /\ failures + Cost(rm) + Cost(rf) <= MaxFailures
        /\ backend' = b2
        /\ nextId' = IF Is2xx(rm) THEN nextId + 1 ELSE nextId
        /\ UNCHANGED session
        /\ form' = FormAfterSubmit([title |-> t, content |-> c, date |-> d])
        /\ view' = CompleteView(f.ret, session,
                                IF rerun THEN f.notices ELSE cr.notices \cup f.notices)
        /\ last' = Done(Event("Submit", 0, t, c, d), TRUE, Truthy(cr.ret), <<cr.call, f.call>>)
        /\ justEdited' = Brief(last)
        /\ lastGood' = Good(lastGood, f)
        /\ Budget

(***************************************************************************)
(* The user clicks Edit on a card the page shows.                          *)
(***************************************************************************)
Edit(jid, r1, r2) ==
    LET f1  == fetch_journals(backend, r1)
        js  == f1.ret
        ev  == Event("Edit", jid, <<>>, <<>>, Today)
    IN  /\ jid \in Shown(view)
        /\ failures + Cost(r1) + Cost(r2) <= MaxFailures
        /\ (jid \notin Ids(js) \/ EditFaults(js, session, Pos(js, jid))) => Idle(r2)
        /\ UNCHANGED <<backend, nextId, form>>
        /\ justEdited' = Brief(last)
        /\ IF jid \notin Ids(js)
           THEN \* the button is not drawn in this run: the click is dropped
                /\ UNCHANGED session
                /\ view' = CompleteView(js, session, f1.notices)
                /\ last' = Done(ev, FALSE, FALSE, <<f1.call>>)
                /\ lastGood' = Good(lastGood, f1)
           ELSE LET pos == Pos(js, jid) IN
                IF EditFaults(js, session, pos)
                THEN \* edit_id is assigned, the next assignment raises
                     /\ session' = Put(session, "edit_id", jid)
                     /\ view' = FaultView(js, session, pos, f1.notices)
                     /\ last' = Done(ev, TRUE, FALSE, <<f1.call>>)
                     /\ lastGood' = Good(lastGood, f1)
                ELSE LET s2 == EditClick(session, js[pos])
                         f2 == fetch_journals(backend, r2)
                     IN  /\ session' = s2
                         /\ view' = CompleteView(f2.ret, s2, f2.notices)
                         /\ last' = Done(ev, TRUE, TRUE, <<f1.call, f2.call>>)
                         /\ lastGood' = Good(Good(lastGood, f1), f2)
        /\ Budget

(***************************************************************************)
(* The user clicks Delete on a card the page shows.                        *)
(***************************************************************************)
\* the cards whose Delete button is on the page: a run stopped by a fault
\* has drawn the last card only up to its Edit button
Deletable(v) ==
    IF v.fault THEN { v.cards[i].id : i \in 1..(Len(v.cards) - 1) } ELSE Shown(v)

Delete(jid, r1, rm, r2) ==
    LET f1  == fetch_journals(backend, r1)
        js  == f1.ret
        ev  == Event("Delete", jid, <<>>, <<>>, Today)
        dj  == delete_journal(jid, rm)
        b2  == BackendDelete(backend, jid, rm)
        f2  == fetch_journals(b2, r2)
    IN  /\ jid \in Deletable(view)
        /\ failures + Cost(r1) + Cost(rm) + Cost(r2) <= MaxFailures
        /\ jid \notin Ids(js) => Idle(rm)
        /\ (jid \notin Ids(js) \/ ~RerunAfterDelete(dj.ret)) => Idle(r2)
        /\ UNCHANGED <<nextId, form, session>>
        /\ justEdited' = Brief(last)
        /\ IF jid \notin Ids(js)
           THEN /\ UNCHANGED backend
                /\ view' = CompleteView(js, session, f1.notices)
                /\ last' = Done(ev, FALSE, FALSE, <<f1.call>>)
                /\ lastGood' = Good(lastGood, f1)
           ELSE /\ backend' = b2
                /\ IF RerunAfterDelete(dj.ret)
                   THEN /\ view' = CompleteView(f2.ret, session, f2.notices)
                        /\ last' = Done(ev, TRUE, dj.ret, <<f1.call, dj.call, f2.call>>)
                        /\ lastGood' = Good(Good(lastGood, f1), f2)
                   ELSE /\ view' = CompleteView(js, session, f1.notices \cup dj.notices)
                        /\ last' = Done(ev, TRUE, dj.ret, <<f1.call, dj.call>>)
                        /\ lastGood' = Good(lastGood, f1)
        /\ Budget

(***************************************************************************)
(* The user submits Save Changes in the inline edit form of a card, with   *)
(* the title, content and date the form's widgets hold.                    *)
(***************************************************************************)
\* the widgets of the form are bound to the session keys edit_title,
\* edit_content and edit_date: the submitted values arrive in the session
WithDraft(s, t, c, d) ==
    Put(Put(Put(s, "edit_title", t), "edit_content", c), "edit_date", d)

Save(jid, t, c, d, r1, rm, r2) ==
    LET s1  == WithDraft(session, t, c, d)
        f1  == fetch_journals(backend, r1)
        js  == f1.ret
        ev  == Event("Save", jid, t, c, d)
        pl  == SavePayload(s1)
        up  == update_journal(jid, pl, rm)
        b2  == BackendPut(backend, jid, pl, rm)
        s2  == AfterSave(s1, up.ret)
        f2  == fetch_journals(b2, r2)
        drawn == jid \in Ids(js) /\ EditMode(s1, [id |-> jid])
    IN  /\ jid \in Editing(view)
        /\ failures + Cost(r1) + Cost(rm) + Cost(r2) <= MaxFailures
        /\ ~drawn => Idle(rm)
        /\ (~drawn \/ ~RerunAfterSave(up.ret)) => Idle(r2)
        /\ UNCHANGED <<nextId, form>>
        /\ justEdited' = Brief(last)
        /\ IF ~drawn
           THEN \* the form is not drawn in this run: the submit is dropped
                /\ UNCHANGED backend
                /\ session' = s1
                /\ view' = CompleteView(js, s1, f1.notices)
                /\ last' = Done(ev, FALSE, FALSE, <<f1.call>>)
                /\ lastGood' = Good(lastGood, f1)
           ELSE /\ backend' = b2
                /\ session' = s2
                /\ IF RerunAfterSave(up.ret)
                   THEN /\ view' = CompleteView(f2.ret, s2, f2.notices)
                        /\ last' = Done(ev, TRUE, up.ret, <<f1.call, up.call, f2.call>>)
                        /\ lastGood' = Good(Good(lastGood, f1), f2)
                   ELSE /\ view' = CompleteView(js, s2, f1.notices \cup up.notices)
                        /\ last' = Done(ev, TRUE, up.ret, <<f1.call, up.call>>)
                        /\ lastGood' = Good(lastGood, f1)
        /\ Budget

(***************************************************************************)
(* The user clicks Cancel edit under the inline edit form of a card.       *)
(***************************************************************************)
Cancel(jid, r1, r2) ==
    LET f1  == fetch_journals(backend, r1)
        js  == f1.ret
        ev  == Event("Cancel", jid, <<>>, <<>>, Today)
        s2  == AfterCancel(session)
        f2  == fetch_journals(backend, r2)
        drawn == jid \in Ids(js) /\ EditMode(session, [id |-> jid])
    IN  /\ jid \in Editing(view)
        /\ failures + Cost(r1) + Cost(r2) <= MaxFailures
        /\ ~drawn => Idle(r2)
        /\ UNCHANGED <<backend, nextId, form>>
        /\ justEdited' = Brief(last)
        /\ IF ~drawn
           THEN /\ UNCHANGED session
                /\ view' = CompleteView(js, session, f1.notices)
                /\ last' = Done(ev, FALSE, FALSE, <<f1.call>>)
                /\ lastGood' = Good(lastGood, f1)
           ELSE /\ session' = s2
                /\ view' = CompleteView(f2.ret, s2, f2.notices)
                /\ last' = Done(ev, TRUE, TRUE, <<f1.call, f2.call>>)
                /\ lastGood' = Good(Good(lastGood, f1), f2)
        /\ Budget

(***************************************************************************)
(* Specification.                                                          *)
(***************************************************************************)
\* the answers the environment may still give
Answers == IF failures < MaxFailures THEN Responses ELSE {Ok200}

SubmitStep ==
    \E p \in Samples, rm, rf \in Answers :
        Submit(p.title, p.content, p.date, rm, rf)

EditStep == \E jid \in Shown(view), r1, r2 \in Answers : Edit(jid, r1, r2)

DeleteStep ==
    \E jid \in Deletable(view), r1, rm, r2 \in Answers : Delete(jid, r1, rm, r2)

SaveStep ==
    \E jid \in Editing(view), p \in Samples, r1, rm, r2 \in Answers :
        Save(jid, p.title, p.content, p.date, r1, rm, r2)

CancelStep == \E jid \in Editing(view), r1, r2 \in Answers : Cancel(jid, r1, r2)

Next == SubmitStep \/ EditStep \/ DeleteStep \/ SaveStep \/ CancelStep

Spec == Init /\ [][Next]_vars

(***************************************************************************)
(* Properties.                                                             *)
(***************************************************************************)
NoWrites(calls) == \A i \in 1..Len(calls) : ~IsWrite(calls[i])

\* C1: in every render at most one card is in EDITING, that is at most one
\* card has its inline edit form drawn.
C1_AtMostOneEditing == Cardinality(view.forms) <= 1

\* Edit was clicked on a second card while another card was in EDITING and
\* the page shows both cards, one of them with its form
C1_Witness ==
    /\ last.op = "Edit" /\ last.fired /\ last.ok
    /\ justEdited # <<>> /\ justEdited[1] # last.id
    /\ Len(view.cards) >= 2
    /\ Cardinality(view.forms) = 1

\* C2: when Save Changes is submitted on the card in EDITING and
\* update_journal returns False, the card is still in EDITING (edit_id is
\* still its id), the draft holds the title, content and date the user
\* entered, and the page shows the "Update failed" notice.
C2_FailedSaveKeepsDraft ==
    (last.op = "Save" /\ last.fired /\ ~last.ok) =>
        /\ last.id \in Editing(view)
        /\ Has(session, "edit_id") /\ session["edit_id"] = last.id
        /\ session["edit_title"] = last.title
        /\ session["edit_content"] = last.content
        /\ session["edit_date"] = last.date
        /\ "Update failed" \in view.notices

\* a failed Save whose entered title differs from the entry's stored title
C2_Witness ==
    /\ last.op = "Save" /\ last.fired /\ ~last.ok
    /\ \E i \in 1..Len(backend) :
          /\ backend[i].id = last.id
          /\ backend[i].title # last.title
          /\ backend[i].content # last.content

C4_FailedCreateKeepsForm ==
    [][ (last'.op = "Submit" /\ ~last'.ok) =>
            /\ form' = [title |-> last'.title, content |-> last'.content,
                        date |-> last'.date]
            /\ "Create failed" \in view'.notices
            /\ session' = session
      ]_vars

LastCall == last.calls[Len(last.calls)]

\* C5: after every create, update or delete answered 2xx, a GET is issued
\* after it within the same event and the page is rendered from that GET;
\* after a create the creation form is back to its empty defaults.
C5_RefetchAfterMutation ==
    \A i \in 1..Len(last.calls) :
        (IsWrite(last.calls[i]) /\ Is2xx(last.calls[i].resp)) =>
            /\ i < Len(last.calls)
            /\ LastCall.method = "GET"
            /\ ~view.fault
            /\ view.journals = fetch_journals(backend, LastCall.resp).ret
            /\ (last.calls[i].method = "POST") => (form = DefaultForm)

\* a delete answered 2xx, followed by the fetch of the restarted script
C5_Witness ==
    /\ last.op = "Delete" /\ last.fired
    /\ Len(last.calls) = 3
    /\ Is2xx(last.calls[2].resp)
    /\ last.id \notin Ids(backend)

\* C6: when Delete is clicked on a card: if delete_journal returns True the
\* id is absent from the render that follows; if it returns False the entry
\* is still on the page and the "Delete failed" notice is shown.
C6_DeleteOutcome ==
    (last.op = "Delete" /\ last.fired) =>
        /\ last.ok => last.id \notin Shown(view)
        /\ ~last.ok => (last.id \in Shown(view) /\ "Delete failed" \in view.notices)

\* a request fails in the sense of the REST contract: a transport error or
\* a status outside 2xx
ContractFailure(r) == ~Is2xx(r)

\* C7: when the GET the page is rendered from fails (transport error or
\* non-2xx status), fetch_journals returns the empty list, the "Could not
\* fetch journals" notice is shown and the page shows the fallback, no card.
C7_FailedListFallback ==
    (LastCall.method = "GET" /\ ContractFailure(LastCall.resp)) =>
        /\ view.journals = <<>>
        /\ view.cards = <<>>
        /\ view.fallback
        /\ "Could not fetch journals" \in view.notices
        /\ NoEntriesInfo \in view.notices

\* C8: update_journal and delete_journal return True only for a response
\* with a 2xx status; for any other status and for a transport failure they
\* return False and the failure notice is shown.
C8_TrueOnly2xx ==
    (last.op \in {"Save", "Delete"} /\ last.fired) =>
        /\ last.ok <=> Is2xx(last.calls[2].resp)
        /\ ~Is2xx(last.calls[2].resp) =>
              (IF last.op = "Save" THEN "Update failed" ELSE "Delete failed") \in view.notices

Ident(js) == [i \in 1..Len(js) |-> [id |-> js[i].id, date |-> js[i].date]]

\* C9 as stated: in every render the cards are the entries of the last
\* successful fetch.
C9_CardsAreLastGoodFetch ==
    lastGood # <<>> => Ident(view.cards) = Ident(lastGood[1])

\* C9 amended: the cards of a render are the list its own fetch_journals
\* call returned: the entries of the last successful fetch when that call
\* succeeded and no card when it failed; a render stopped by a fault shows
\* the first cards of that list.
C9_CardsAreOwnFetch ==
    LET own == IF "Could not fetch journals" \in view.notices \/ lastGood = <<>>
               THEN <<>> ELSE lastGood[1]
    IN  /\ view.journals = own
        /\ Len(view.cards) <= Len(own)
        /\ ~view.fault => Len(view.cards) = Len(own)
        /\ Ident(view.cards) = Ident(SubSeq(own, 1, Len(view.cards)))
        /\ \A i \in 1..Len(view.cards) :
              /\ view.cards[i].title = escape(own[i].title)
              /\ view.cards[i].content = escape(own[i].content)

\* a failed fetch after a successful one with entries: the fallback is shown
C9_Witness ==
    /\ lastGood # <<>> /\ lastGood[1] # <<>>
    /\ "Could not fetch journals" \in view.notices
    /\ view.cards = <<>>
    /\ last.op # "Open"

NoticeOf(method) ==
    CASE method = "GET"    -> "Could not fetch journals"
      [] method = "POST"   -> "Create failed"
      [] method = "PUT"    -> "Update failed"
      [] method = "DELETE" -> "Delete failed"

\* C10: every failed request of an event (transport error or non-2xx
\* status) leaves its notice on the page, the operation returns its fallback
\* value (empty list, None, False) and the render completes.
C10_FailuresContained ==
    \A i \in 1..Len(last.calls) :
        ContractFailure(last.calls[i].resp) =>
            /\ NoticeOf(last.calls[i].method) \in view.notices
            /\ ~view.fault
            /\ IsWrite(last.calls[i]) => ~last.ok
            /\ (i = Len(last.calls) /\ ~IsWrite(last.calls[i])) => view.journals = <<>>

EscapedCards ==
    \A i \in 1..Len(view.cards) :
        /\ view.cards[i].title = escape(view.journals[i].title)
        /\ view.cards[i].content = escape(view.journals[i].content)

\* C12: for every entry of the list fetch_journals returned, the title and
\* the content drawn on its card equal the HTML-escaped strings of the entry,
\* and the render of every such entry completes: no run stops inside a card.
C12_EscapedAndComplete ==
    /\ EscapedCards
    /\ Len(view.cards) = Len(view.journals)
    /\ ~view.fault

\* the entry with id jid as the backend holds it
Stored(jid) == CHOOSE e \in { backend[i] : i \in 1..Len(backend) } : e.id = jid

\* the draft in the session is the one Edit builds from entry j
DraftOf(j) ==
    /\ Has(session, "edit_title") /\ session["edit_title"] = j.title
    /\ Has(session, "edit_content") /\ session["edit_content"] = j.content
    /\ Has(session, "edit_date") /\ session["edit_date"] = ParseDate(j.date)

\* C13: whenever the Edit handler of a card in VIEWING has run, in any UI
\* state, also with another card in EDITING, that card is the card in
\* EDITING and the draft title, content and date are that entry's title,
\* content and parsed date, never another entry's.
C13_EditLoadsOwnDraft ==
    (last.op = "Edit" /\ last.fired) =>
        /\ Has(session, "edit_id") /\ session["edit_id"] = last.id
        /\ DraftOf(Stored(last.id))
        /\ last.id \in Shown(view) => Editing(view) = {last.id}

\* C14: the edit state is cleared on save-success and on cancel: after
\* either handler has run the editing id is absent from the session state
\* and the draft title, content and date are absent as well.
C14_EditStateCleared ==
    (last.fired /\ (last.op = "Cancel" \/ (last.op = "Save" /\ last.ok))) =>
        /\ ~Has(session, "edit_id")
        /\ ~Has(session, "edit_title")
        /\ ~Has(session, "edit_content")
        /\ ~Has(session, "edit_date")

\* the positions of the PUT calls among the calls of an event
Puts(calls) == { i \in 1..Len(calls) : calls[i].method = "PUT" }

\* the payload the draft (t, c, d) is sent as
DraftPayload(t, c, d) == [title |-> t, content |-> c, date |-> iso_date(d)]

\* C15 as stated: when the user submits Save on a card in EDITING, exactly
\* one update call is made, for that card's id, with a payload whose title,
\* content and date equal the current draft; if it succeeds the card is in
\* VIEWING in the next render.
C15_SaveCallsUpdateOnce ==
    (last.op = "Save") =>
        /\ Cardinality(Puts(last.calls)) = 1
        /\ \A i \in Puts(last.calls) :
              /\ last.calls[i].path = <<last.id>>
              /\ last.calls[i].body = <<DraftPayload(last.title, last.content, last.date)>>
        /\ last.ok => (last.id \notin Editing(view) /\ ~Has(session, "edit_id"))

\* C15, amended: a Save submit makes exactly one update call, for the card's
\* id and with the current draft as payload, when the run that handles it
\* draws the form again (its list() call returns the entry and edit_id is the
\* card's id), and makes no update call and leaves the backend alone
\* otherwise; no other write is made; when update_journal returns true the
\* card is in VIEWING in the next render.
C15_SaveCallsUpdateWhenDrawn ==
    [][ (last'.op = "Save") =>
          LET f1    == fetch_journals(backend, last'.calls[1].resp)
              drawn == /\ last'.id \in Ids(f1.ret)
                       /\ Has(session, "edit_id") /\ session["edit_id"] = last'.id
          IN  /\ Cardinality(Puts(last'.calls)) = IF drawn THEN 1 ELSE 0
              /\ \A i \in 1..Len(last'.calls) :
                    IsWrite(last'.calls[i]) => i \in Puts(last'.calls)
              /\ \A i \in Puts(last'.calls) :
                    /\ last'.calls[i].path = <<last'.id>>
                    /\ last'.calls[i].body =
                          <<DraftPayload(last'.title, last'.content, last'.date)>>
              /\ ~drawn => (backend' = backend /\ ~last'.ok)
              /\ last'.ok => (last'.id \notin Editing(view') /\ ~Has(session', "edit_id"))
      ]_vars

\* a Save that sent the draft dated 2024-02-02 for the card's id, succeeded,
\* and the card is shown again without its form
C15_Witness ==
    /\ last.op = "Save" /\ last.fired /\ last.ok
    /\ Len(last.calls) = 3
    /\ last.calls[2].method = "PUT" /\ last.calls[2].path = <<last.id>>
    /\ last.calls[2].body = <<[title |-> <<"T">>, content |-> <<"C">>, date |-> "2024-02-02"]>>
    /\ last.id \in Shown(view) /\ last.id \notin Editing(view)

\* the date string is written as YYYY-MM-DD, month and day with two digits
IsoFormat(str) == \E dt \in Dates : str = iso_date(dt)

\* C16: when the Edit handler runs for an entry whose date string is missing
\* or not in YYYY-MM-DD format, entering edit mode does not fail: the card is
\* in EDITING, the draft date is the current date and the draft title and
\* content are the entry's.
C16_BadDateEditsWithToday ==
    (last.op = "Edit" /\ last.fired /\ ~IsoFormat(Stored(last.id).date)) =>
        /\ ~view.fault
        /\ Has(session, "edit_id") /\ session["edit_id"] = last.id
        /\ session["edit_title"] = Stored(last.id).title
        /\ session["edit_content"] = Stored(last.id).content
        /\ session["edit_date"] = Today
        /\ last.id \in Shown(view) => last.id \in Editing(view)

\* C17: every id sent in a PUT or DELETE is the id of an entry in the list
\* that the same run fetched before (and so an id received from the
\* backend), and a PUT is sent only for the id the session holds as edit_id.
C17_WritesOnlyForFetchedIds ==
    [][ LET calls == last'.calls
            f1    == fetch_journals(backend, calls[1].resp)
        IN  \A i \in 1..Len(calls) :
                (calls[i].method \in {"PUT", "DELETE"}) =>
                    /\ i > 1 /\ calls[1].method = "GET"
                    /\ calls[i].path[1] \in Ids(f1.ret)
                    /\ calls[i].path[1] \in Ids(backend)
                    /\ (calls[i].method = "PUT") =>
                          /\ Has(session, "edit_id")
                          /\ session["edit_id"] = calls[i].path[1]
      ]_vars

\* with two entries listed, a DELETE was sent for the second one and, in
\* another event, a PUT for the entry being edited
C17_Witness ==
    /\ Len(last.calls) >= 2
    /\ \/ /\ last.op = "Delete" /\ last.id = 2
          /\ last.calls[2].method = "DELETE" /\ last.calls[2].path = <<2>>
          /\ 1 \in Shown(view)
       \/ /\ last.op = "Save" /\ last.id = 2
          /\ last.calls[2].method = "PUT" /\ last.calls[2].path = <<2>>
          /\ Len(backend) = 2

\* C18 as stated: after every completed render, if edit_id is set it is the
\* id of an entry shown in that render, also after that entry was deleted
\* and after a failed fetch.
C18_EditIdIsShown ==
    (~view.fault /\ Has(session, "edit_id")) => session["edit_id"] \in Shown(view)

\* C18, amended: after every completed render the cards with an edit form
\* are exactly the shown cards whose id is the session's edit_id; an edit_id
\* whose entry is not shown has no form on the page.
C18_FormFollowsEditId ==
    ~view.fault =>
        Editing(view) =
            { jid \in Shown(view) : Has(session, "edit_id") /\ session["edit_id"] = jid }

\* the entry being edited was deleted: the render that follows is complete,
\* shows another entry without a form, and edit_id still names the deleted one
C18_Witness ==
    /\ last.op = "Delete" /\ last.fired /\ last.ok
    /\ ~view.fault /\ Shown(view) # {} /\ Editing(view) = {}
    /\ Has(session, "edit_id") /\ session["edit_id"] = last.id
    /\ last.id \notin Ids(backend)

====
